---- MODULE Spec2Model ----
(***************************************************************************)
(* Model of src/error.rs of USBMaker: the four stage error enums           *)
(* (PartitioningError, FormatError, MountError, IsoError), the             *)
(* USBMakerError::error_code implementations and the fmt::Display          *)
(* implementations.                                                        *)
(*                                                                         *)
(* An error value is a record: ty is the enum, tag the variant, and the    *)
(* payload is held in a field named after its kind: io (an io::Error),     *)
(* status (an Option<i32>), s (a String) or inner (another stage's error). *)
(* Option<T> is a sequence of length 0 (None) or 1 (Some).                 *)
(***************************************************************************)
EXTENDS Integers, Sequences, FiniteSets, TLC

VARIABLES err, code, msg, causes, unwrapped

vars == <<err, code, msg, causes, unwrapped>>

(***************************************************************************)
(* Bounds and input domains                                                *)
(***************************************************************************)

\* exit statuses carried by the CommandFailed / WipefsFailed variants range
\* over -MaxStatus..MaxStatus
MaxStatus == 12

None == <<>>

Some(v) == <<v>>

Statuses == (0 - MaxStatus)..MaxStatus

OptionStatuses == {None} \cup {Some(n) : n \in Statuses}

\* io::Error values: an OS error (errno and its description) or a custom
\* error that carries its own message
IoErrors ==
    { [repr |-> "Os", code |-> 13, desc |-> "Permission denied"],
      [repr |-> "Os", code |-> 16, desc |-> "Device or resource busy"],
      [repr |-> "Custom", code |-> 0, desc |-> "permission denied"] }

\* String payloads of UnknownTableType / UnknownFilesystemType
Names == {"gpt2", "ext5", ""}

(***************************************************************************)
(* Display of the payload types (std)                                      *)
(***************************************************************************)

Digit(d) == SubSeq("0123456789", d + 1, d + 1)

RECURSIVE NatDecimal(_)
NatDecimal(n) == IF n < 10 THEN Digit(n) ELSE NatDecimal(n \div 10) \o Digit(n % 10)

\* "{}" of an i32
i32_fmt(n) == IF n < 0 THEN "-" \o NatDecimal(0 - n) ELSE NatDecimal(n)

\* "{}" of an io::Error
io_Error_fmt(e) ==
    IF e.repr = "Os"
    THEN e.desc \o " (os error " \o i32_fmt(e.code) \o ")"
    ELSE e.desc

(***************************************************************************)
(* The enums                                                               *)
(***************************************************************************)

Unit(ty, tag) == [ty |-> ty, tag |-> tag]

WithIo(ty, tag, e) == [ty |-> ty, tag |-> tag, io |-> e]

WithStatus(ty, tag, st) == [ty |-> ty, tag |-> tag, status |-> st]

WithString(ty, tag, str) == [ty |-> ty, tag |-> tag, s |-> str]

PartitioningError ==
    {Unit("PartitioningError", "CanceledByUser"), Unit("PartitioningError", "ConstraintError")}
    \cup {WithIo("PartitioningError", t, e) :
            t \in {"CommitError", "DeviceOpenError", "DiskOpenError",
                   "PartitionAddError", "PartitionCreateError"},
            e \in IoErrors}
    \cup {WithString("PartitioningError", "UnknownTableType", str) : str \in Names}

MountError ==
    {WithIo("MountError", t, e) :
        t \in {"CommandExecError", "TempdirCreationError"}, e \in IoErrors}
    \cup {WithStatus("MountError", "CommandFailed", st) : st \in OptionStatuses}

FormatErrorLeaf ==
    {Unit("FormatError", "CanceledByUser")}
    \cup {WithIo("FormatError", t, e) :
            t \in {"CommandExecError", "WipefsExecError"}, e \in IoErrors}
    \cup {WithStatus("FormatError", t, st) :
            t \in {"CommandFailed", "WipefsFailed"}, st \in OptionStatuses}
    \cup {WithString("FormatError", "UnknownFilesystemType", str) : str \in Names}

IsoErrorLeaf ==
    {Unit("IsoError", "CanceledByUser")}
    \cup {WithIo("IsoError", "CopyError", e) : e \in IoErrors}

\* the wrapping variants: the variant constructor applied to the inner value
FormatError_PartitioningError(p) ==
    [ty |-> "FormatError", tag |-> "PartitioningError", inner |-> p]

IsoError_FormatError(e) == [ty |-> "IsoError", tag |-> "FormatError", inner |-> e]

IsoError_MountError(e) == [ty |-> "IsoError", tag |-> "MountError", inner |-> e]

\* mutant: the embedding keeps the variant but drops the embedded cause
IsoError_PartitioningError_lossy(p) ==
    [ty |-> "IsoError", tag |-> "PartitioningError",
     inner |-> Unit("PartitioningError", "CanceledByUser")]

IsoError_PartitioningError(p) ==
    [ty |-> "IsoError", tag |-> "PartitioningError", inner |-> p]

FormatError == FormatErrorLeaf \cup {FormatError_PartitioningError(p) : p \in PartitioningError}

IsoError ==
    IsoErrorLeaf
    \cup {IsoError_FormatError(e) : e \in FormatError}
    \cup {IsoError_MountError(e) : e \in MountError}
    \cup {IsoError_PartitioningError(p) : p \in PartitioningError}

IsWrapping(e) ==
    \/ e.ty = "FormatError" /\ e.tag = "PartitioningError"
    \/ e.ty = "IsoError" /\ e.tag \in {"FormatError", "MountError", "PartitioningError"}

\* the value bound by the pattern of a wrapping variant
Inner(e) == e.inner

(***************************************************************************)
(* USBMakerError::error_code                                               *)
(***************************************************************************)

\* mutant: the cancel code is left at 0
PartitioningError_error_code_zero(e) ==
    CASE e.tag = "CanceledByUser" -> 0
      [] e.tag = "CommitError" -> 8
      [] e.tag = "ConstraintError" -> 9
      [] e.tag = "DeviceOpenError" -> 10
      [] e.tag = "DiskOpenError" -> 11
      [] e.tag = "PartitionAddError" -> 12
      [] e.tag = "PartitionCreateError" -> 13
      [] e.tag = "UnknownTableType" -> 14

PartitioningError_error_code(e) ==
    CASE e.tag = "CanceledByUser" -> 1
      [] e.tag = "CommitError" -> 8
      [] e.tag = "ConstraintError" -> 9
      [] e.tag = "DeviceOpenError" -> 10
      [] e.tag = "DiskOpenError" -> 11
      [] e.tag = "PartitionAddError" -> 12
      [] e.tag = "PartitionCreateError" -> 13
      [] e.tag = "UnknownTableType" -> 14

\* mutant: TempdirCreationError keeps the placeholder code of the other
\* MountError variants
MountError_error_code_placeholder(e) ==
    CASE e.tag = "CommandExecError" -> 1
      [] e.tag = "CommandFailed" -> 1
      [] e.tag = "TempdirCreationError" -> 1

MountError_error_code(e) ==
    CASE e.tag = "CommandExecError" -> 1
      [] e.tag = "CommandFailed" -> 1
      [] e.tag = "TempdirCreationError" -> 17

\* mutant: the codes of WipefsExecError and WipefsFailed are exchanged
FormatError_error_code_swapped(e) ==
    CASE e.tag = "CanceledByUser" -> 1
      [] e.tag = "CommandExecError" -> 15
      [] e.tag = "CommandFailed" -> 16
      [] e.tag = "PartitioningError" -> PartitioningError_error_code(e.inner)
      [] e.tag = "UnknownFilesystemType" -> 17
      [] e.tag = "WipefsExecError" -> 19
      [] e.tag = "WipefsFailed" -> 18

FormatError_error_code(e) ==
    CASE e.tag = "CanceledByUser" -> 1
      [] e.tag = "CommandExecError" -> 15
      [] e.tag = "CommandFailed" -> 16
      [] e.tag = "PartitioningError" -> PartitioningError_error_code(e.inner)
      [] e.tag = "UnknownFilesystemType" -> 17
      [] e.tag = "WipefsExecError" -> 18
      [] e.tag = "WipefsFailed" -> 19

\* mutant: the FormatError wrapper has a code of its own
IsoError_error_code_own(e) ==
    CASE e.tag = "CanceledByUser" -> 1
      [] e.tag = "CopyError" -> 1
      [] e.tag = "FormatError" -> 1
      [] e.tag = "PartitioningError" -> PartitioningError_error_code(e.inner)
      [] e.tag = "MountError" -> MountError_error_code(e.inner)

IsoError_error_code(e) ==
    CASE e.tag = "CanceledByUser" -> 1
      [] e.tag = "CopyError" -> 1
      [] e.tag = "FormatError" -> FormatError_error_code(e.inner)
      [] e.tag = "PartitioningError" -> PartitioningError_error_code(e.inner)
      [] e.tag = "MountError" -> MountError_error_code(e.inner)

\* the trait method, dispatched on the type of the receiver
error_code(e) ==
    CASE e.ty = "FormatError" -> FormatError_error_code(e)
      [] e.ty = "IsoError" -> IsoError_error_code(e)
      [] e.ty = "MountError" -> MountError_error_code(e)
      [] e.ty = "PartitioningError" -> PartitioningError_error_code(e)

(***************************************************************************)
(* fmt::Display                                                            *)
(***************************************************************************)

\* mutant: the template of UnknownTableType lacks its colon
PartitioningError_fmt_typo(e) ==
    CASE e.tag = "CanceledByUser" -> "The operation was canceled by the user"
      [] e.tag = "CommitError" ->
            "Failed to commit changes to disk: " \o io_Error_fmt(e.io)
      [] e.tag = "ConstraintError" -> "Failed to get the constraint"
      [] e.tag = "DeviceOpenError" ->
            "Failed open the target device: " \o io_Error_fmt(e.io)
      [] e.tag = "DiskOpenError" ->
            "Failed open the partition table: " \o io_Error_fmt(e.io)
      [] e.tag = "PartitionAddError" ->
            "Failed to add partition to partition table: " \o io_Error_fmt(e.io)
      [] e.tag = "PartitionCreateError" ->
            "Failed create partition in memory: " \o io_Error_fmt(e.io)
      [] e.tag = "UnknownTableType" -> "Unknown partition table type " \o e.s

PartitioningError_fmt(e) ==
    CASE e.tag = "CanceledByUser" -> "The operation was canceled by the user"
      [] e.tag = "CommitError" ->
            "Failed to commit changes to disk: " \o io_Error_fmt(e.io)
      [] e.tag = "ConstraintError" -> "Failed to get the constraint"
      [] e.tag = "DeviceOpenError" ->
            "Failed open the target device: " \o io_Error_fmt(e.io)
      [] e.tag = "DiskOpenError" ->
            "Failed open the partition table: " \o io_Error_fmt(e.io)
      [] e.tag = "PartitionAddError" ->
            "Failed to add partition to partition table: " \o io_Error_fmt(e.io)
      [] e.tag = "PartitionCreateError" ->
            "Failed create partition in memory: " \o io_Error_fmt(e.io)
      [] e.tag = "UnknownTableType" -> "Unknown partition table type: " \o e.s

\* mutant: the exit status is not interpolated
MountError_fmt_nocode(e) ==
    CASE e.tag = "CommandExecError" -> "Failed to execute command: " \o io_Error_fmt(e.io)
      [] e.tag = "CommandFailed" ->
            IF e.status # None
            THEN "Mount command exited with code: {}"
            ELSE "Mount command terminated by signal"
      [] e.tag = "TempdirCreationError" ->
            "Failed to create temporary directory: " \o io_Error_fmt(e.io)

MountError_fmt(e) ==
    CASE e.tag = "CommandExecError" -> "Failed to execute command: " \o io_Error_fmt(e.io)
      [] e.tag = "CommandFailed" ->
            IF e.status # None
            THEN "Mount command exited with code: " \o i32_fmt(e.status[1])
            ELSE "Mount command terminated by signal"
      [] e.tag = "TempdirCreationError" ->
            "Failed to create temporary directory: " \o io_Error_fmt(e.io)

\* mutant: the PartitioningError wrapper prefixes the cause's message
FormatError_fmt_prefixed(e) ==
    CASE e.tag = "CanceledByUser" -> "The operation was canceled by the user"
      [] e.tag = "CommandExecError" -> "Failed to execute command: " \o io_Error_fmt(e.io)
      [] e.tag = "CommandFailed" ->
            IF e.status # None
            THEN "Command exited with code: " \o i32_fmt(e.status[1])
            ELSE "Command terminated by signal"
      [] e.tag = "PartitioningError" ->
            "Partitioning failed: " \o PartitioningError_fmt(e.inner)
      [] e.tag = "UnknownFilesystemType" -> "Unknown filesystem type: " \o e.s
      [] e.tag = "WipefsExecError" -> "Failed to execute wipefs: " \o io_Error_fmt(e.io)
      [] e.tag = "WipefsFailed" ->
            IF e.status # None
            THEN "Wipefs exited with code: " \o i32_fmt(e.status[1])
            ELSE "Wipefs terminated by signal"

FormatError_fmt(e) ==
    CASE e.tag = "CanceledByUser" -> "The operation was canceled by the user"
      [] e.tag = "CommandExecError" -> "Failed to execute command: " \o io_Error_fmt(e.io)
      [] e.tag = "CommandFailed" ->
            IF e.status # None
            THEN "Command exited with code: " \o i32_fmt(e.status[1])
            ELSE "Command terminated by signal"
      [] e.tag = "PartitioningError" -> PartitioningError_fmt(e.inner)
      [] e.tag = "UnknownFilesystemType" -> "Unknown filesystem type: " \o e.s
      [] e.tag = "WipefsExecError" -> "Failed to execute wipefs: " \o io_Error_fmt(e.io)
      [] e.tag = "WipefsFailed" ->
            IF e.status # None
            THEN "Wipefs exited with code: " \o i32_fmt(e.status[1])
            ELSE "Wipefs terminated by signal"

\* mutant: the cancel sentence of IsoError is worded differently
IsoError_fmt_reworded(e) ==
    CASE e.tag = "CanceledByUser" -> "The operation was cancelled"
      [] e.tag = "CopyError" -> "Failed to copy files: " \o io_Error_fmt(e.io)
      [] e.tag = "FormatError" -> FormatError_fmt(e.inner)
      [] e.tag = "MountError" -> MountError_fmt(e.inner)
      [] e.tag = "PartitioningError" -> PartitioningError_fmt(e.inner)

IsoError_fmt(e) ==
    CASE e.tag = "CanceledByUser" -> "The operation was canceled by the user"
      [] e.tag = "CopyError" -> "Failed to copy files: " \o io_Error_fmt(e.io)
      [] e.tag = "FormatError" -> FormatError_fmt(e.inner)
      [] e.tag = "MountError" -> MountError_fmt(e.inner)
      [] e.tag = "PartitioningError" -> PartitioningError_fmt(e.inner)

\* Display::fmt, dispatched on the type of the receiver
fmt(e) ==
    CASE e.ty = "FormatError" -> FormatError_fmt(e)
      [] e.ty = "IsoError" -> IsoError_fmt(e)
      [] e.ty = "MountError" -> MountError_fmt(e)
      [] e.ty = "PartitioningError" -> PartitioningError_fmt(e)

(***************************************************************************)
(* State machine: a stage fails with a leaf error; higher stages embed it  *)
(* in their wrapping variants; error_code and fmt are called on the current*)
(* value; a wrapping variant is matched to take its inner value back.      *)
(*   err       the current error value                                     *)
(*   code      Option: the result of error_code(err), None before the call *)
(*   msg       Option: the result of fmt(err), None before the call        *)
(*   causes    the values embedded so far, innermost first, each with the  *)
(*             code and message computed for it before it was embedded     *)
(*   unwrapped Option: the entry of causes of the value last taken back    *)
(***************************************************************************)

Snapshot == [value |-> err, code |-> code, msg |-> msg]

LeafErrors == PartitioningError \cup MountError \cup FormatErrorLeaf \cup IsoErrorLeaf

Init ==
    /\ err \in LeafErrors
    /\ code = None
    /\ msg = None
    /\ causes = <<>>
    /\ unwrapped = None

CallErrorCode ==
    /\ code = None
    /\ code' = Some(error_code(err))
    /\ UNCHANGED <<err, msg, causes, unwrapped>>

CallFmt ==
    /\ msg = None
    /\ msg' = Some(fmt(err))
    /\ UNCHANGED <<err, code, causes, unwrapped>>

Embed(wrapped) ==
    /\ err' = wrapped
    /\ causes' = Append(causes, Snapshot)
    /\ code' = None
    /\ msg' = None
    /\ unwrapped' = None

EmbedPartitioningInFormat ==
    /\ err.ty = "PartitioningError"
    /\ Embed(FormatError_PartitioningError(err))

EmbedFormatInIso ==
    /\ err.ty = "FormatError"
    /\ Embed(IsoError_FormatError(err))

EmbedMountInIso ==
    /\ err.ty = "MountError"
    /\ Embed(IsoError_MountError(err))

EmbedPartitioningInIso ==
    /\ err.ty = "PartitioningError"
    /\ Embed(IsoError_PartitioningError(err))

Unwrap ==
    /\ IsWrapping(err)
    /\ err' = Inner(err)
    /\ unwrapped' = Some(causes[Len(causes)])
    /\ causes' = SubSeq(causes, 1, Len(causes) - 1)
    /\ code' = None
    /\ msg' = None

Next ==
    \/ CallErrorCode
    \/ CallFmt
    \/ EmbedPartitioningInFormat
    \/ EmbedFormatInIso
    \/ EmbedMountInIso
    \/ EmbedPartitioningInIso
    \/ Unwrap

Spec == Init /\ [][Next]_vars

TypeOK ==
    /\ err \in PartitioningError \cup MountError \cup FormatError \cup IsoError
    /\ Len(code) <= 1
    /\ Len(msg) <= 1
    /\ Len(causes) <= 2
    /\ Len(unwrapped) <= 1

(***************************************************************************)
(* Helpers of the properties                                               *)
(***************************************************************************)

\* the innermost value of a causal chain
RECURSIVE Leaf(_)
Leaf(e) == IF IsWrapping(e) THEN Leaf(Inner(e)) ELSE e

Contains(str, sub) ==
    \E i \in 1..(Len(str) - Len(sub) + 1) : SubSeq(str, i, i + Len(sub) - 1) = sub

IsCommandFailure(e) ==
    \/ e.ty = "FormatError" /\ e.tag \in {"CommandFailed", "WipefsFailed"}
    \/ e.ty = "MountError" /\ e.tag = "CommandFailed"

\* the table of exit codes of the specification (section 4.3)
ExitCodeTable(ty, tag) ==
    CASE tag = "CanceledByUser" -> 1
      [] ty = "MountError" /\ tag \in {"CommandExecError", "CommandFailed"} -> 1
      [] ty = "PartitioningError" /\ tag = "CommitError" -> 8
      [] ty = "PartitioningError" /\ tag = "ConstraintError" -> 9
      [] ty = "PartitioningError" /\ tag = "DeviceOpenError" -> 10
      [] ty = "PartitioningError" /\ tag = "DiskOpenError" -> 11
      [] ty = "PartitioningError" /\ tag = "PartitionAddError" -> 12
      [] ty = "PartitioningError" /\ tag = "PartitionCreateError" -> 13
      [] ty = "PartitioningError" /\ tag = "UnknownTableType" -> 14
      [] ty = "FormatError" /\ tag = "CommandExecError" -> 15
      [] ty = "FormatError" /\ tag = "CommandFailed" -> 16
      [] ty = "FormatError" /\ tag = "UnknownFilesystemType" -> 17
      [] ty = "MountError" /\ tag = "TempdirCreationError" -> 17
      [] ty = "FormatError" /\ tag = "WipefsExecError" -> 18
      [] ty = "FormatError" /\ tag = "WipefsFailed" -> 19
      [] ty = "IsoError" /\ tag = "CopyError" -> 1

Gpt2Chain ==
    IsoError_FormatError(FormatError_PartitioningError(
        WithString("PartitioningError", "UnknownTableType", "gpt2")))

(***************************************************************************)
(* Properties                                                              *)
(***************************************************************************)

\* C1: the error_code of every leaf variant of the four enums is the fixed
\* constant of the exit-code table, whatever the payload (any I/O cause, any
\* string, any Some(n) or None status).
C1_LeafCodeTable ==
    (code # None /\ ~IsWrapping(err)) => code[1] = ExitCodeTable(err.ty, err.tag)

C1_Witness ==
    /\ err.ty = "FormatError"
    /\ err.tag = "WipefsFailed"
    /\ err.status = None
    /\ code = Some(19)

\* C2: delegation law: the error_code of a wrapping variant is the error_code
\* of the value it wraps, at every level of the chain: the code computed for
\* the current value equals the code computed for each value embedded in it.
C2_Delegation ==
    /\ (code # None /\ IsWrapping(err)) => code[1] = error_code(Inner(err))
    /\ \A i \in 1..Len(causes) :
         (code # None /\ causes[i].code # None) => code = causes[i].code

C2_Witness ==
    /\ Len(causes) = 2
    /\ causes[1].value.tag = "CommitError"
    /\ causes[1].code = Some(8)
    /\ causes[2].code = Some(8)
    /\ code = Some(8)

\* C3: message transparency law: the rendering of a wrapping variant is
\* exactly the rendering of the value it wraps, with no prefix or suffix, at
\* every level of the chain.
C3_Transparency ==
    /\ (msg # None /\ IsWrapping(err)) => msg[1] = fmt(Inner(err))
    /\ \A i \in 1..Len(causes) :
         (msg # None /\ causes[i].msg # None) => msg = causes[i].msg

C3_Witness ==
    /\ Len(causes) = 2
    /\ causes[1].value.tag = "DiskOpenError"
    /\ causes[1].msg # None
    /\ causes[2].msg # None
    /\ msg # None

\* C4 (as stated): CanceledByUser of any stage, direct or wrapped, resolves to
\* exit code 1 and renders "The operation was canceled by the user." with the
\* final full stop.
C4_Original ==
    Leaf(err).tag = "CanceledByUser" =>
        /\ code # None => code[1] = 1
        /\ msg # None => msg[1] = "The operation was canceled by the user."

\* C4 (amended): CanceledByUser of any stage, direct or wrapped, resolves to
\* exit code 1 and renders "The operation was canceled by the user", without
\* a final full stop.
C4_Canceled ==
    Leaf(err).tag = "CanceledByUser" =>
        /\ code # None => code[1] = 1
        /\ msg # None => msg[1] = "The operation was canceled by the user"

C4_Witness ==
    /\ Len(causes) = 2
    /\ Leaf(err).tag = "CanceledByUser"
    /\ code # None
    /\ msg # None

\* C5: a command-failure variant with status Some(n) renders the decimal of
\* n; with status None it renders a "terminated by signal" sentence that
\* differs from the rendering of every Some(n); the exit code is the same for
\* every status.
C5_CommandFailure ==
    IsCommandFailure(err) =>
        /\ (msg # None /\ err.status # None) =>
              Contains(msg[1], ToString(err.status[1]))
        /\ (msg # None /\ err.status = None) =>
              /\ Contains(msg[1], "terminated by signal")
              /\ \A n \in Statuses : msg[1] # fmt([err EXCEPT !.status = Some(n)])
        /\ code # None =>
              \A st \in OptionStatuses : code[1] = error_code([err EXCEPT !.status = st])

C5_Witness ==
    /\ err.ty = "MountError"
    /\ err.tag = "CommandFailed"
    /\ err.status = None
    /\ msg # None
    /\ code # None

\* C6: IsoError::FormatError(FormatError::PartitioningError(
\* PartitioningError::UnknownTableType("gpt2"))) resolves to exit code 14 and
\* renders exactly "Unknown partition table type: gpt2".
C6_Gpt2Scenario ==
    err = Gpt2Chain =>
        /\ code # None => code[1] = 14
        /\ msg # None => msg[1] = "Unknown partition table type: gpt2"

C6_Witness ==
    /\ err = Gpt2Chain
    /\ code # None
    /\ msg # None

\* C7: MountError::TempdirCreationError resolves to exit code 17 and renders
\* "Failed to create temporary directory: " followed by the I/O cause's own
\* message, so "Failed to create temporary directory: permission denied" for
\* a cause whose message is "permission denied"; the same holds when it is
\* wrapped in IsoError::MountError.
C7_TempdirScenario ==
    (Leaf(err).ty = "MountError" /\ Leaf(err).tag = "TempdirCreationError") =>
        /\ code # None => code[1] = 17
        /\ msg # None =>
              msg[1] = "Failed to create temporary directory: " \o io_Error_fmt(Leaf(err).io)
        /\ (msg # None /\ io_Error_fmt(Leaf(err).io) = "permission denied") =>
              msg[1] = "Failed to create temporary directory: permission denied"

C7_Witness ==
    /\ err.ty = "IsoError"
    /\ err.tag = "MountError"
    /\ Inner(err).tag = "TempdirCreationError"
    /\ io_Error_fmt(Inner(err).io) = "permission denied"
    /\ code # None
    /\ msg # None

C9_NonZeroCode ==
    code # None => (code[1] # 0 /\ code[1] \in ({1} \cup (8..19)))

C9_Witness ==
    /\ Len(causes) = 2
    /\ err.ty = "IsoError"
    /\ code # None

\* C10: exit codes identify the leaf cause: an error value whose exit code is
\* not the shared code 1 has an exit code different from that of every error
\* value with a different innermost leaf variant.
C10_CodesIdentifyLeaf ==
    (code # None /\ code[1] # 1) =>
        \A o \in LeafErrors :
            (<<o.ty, o.tag>> # <<Leaf(err).ty, Leaf(err).tag>>) => error_code(o) # code[1]
====
